---- MODULE Spec2Model ----
(***************************************************************************)
(* Availability resolution of the staff module: the schedule resolver, the *)
(* point-in-time checks and the slot enumeration of                        *)
(* services/staff_service.py over the records of models.py.                *)
(*                                                                         *)
(* Dates are day numbers counted from a Monday, times of day are counted   *)
(* in units of a quarter of an hour (09:00 is 36), a datetime is the       *)
(* number of units since midnight of day 0.                                *)
(***************************************************************************)
EXTENDS Integers, Sequences, FiniteSets, TLC

MaxT == 3
MaxDate == 1
MaxDuration == 4
MaxInterval == 2
DayLen == 96

Null == -1

Times == 0..MaxT
OptTimes == Times \cup {Null}
Dates == 0..MaxDate
Durations == 0..MaxDuration
Intervals == 0..MaxInterval
Weekdays == 0..6

StaffStatuses == {"active", "inactive", "on_leave", "terminated"}
TimeOffStatuses == {"pending", "approved", "rejected", "cancelled"}

VARIABLES status, schedules, time_off, working_hours, members,
          pc, op, q, result, hours, current, slots, available, prev,
          held, saving, response

vars == <<status, schedules, time_off, working_hours, members,
          pc, op, q, result, hours, current, slots, available, prev,
          held, saving, response>>
store == <<status, schedules, time_off, working_hours, members>>

\* The objects of the callers: the schedule instances that a caller holds,
\* the saves that requests have begun and the HTTP status that the last
\* endpoint answered with.
client == <<held, saving, response>>

(***************************************************************************)
(* Records                                                                 *)
(***************************************************************************)

\* The result of a working-hours lookup that finds no row (None).
NoRow ==
    [found |-> FALSE, is_working |-> FALSE, start_time |-> Null,
     end_time |-> Null, break_start |-> Null, break_end |-> Null]

StaffWorkingHours(w, s, e, bs, be) ==
    [found |-> TRUE, is_working |-> w, start_time |-> s, end_time |-> e,
     break_start |-> bs, break_end |-> be]

StaffSchedule(pk, name, dflt, active, from, until, wh) ==
    [pk |-> pk, name |-> name, is_default |-> dflt, is_active |-> active,
     effective_from |-> from, effective_until |-> until, working_hours |-> wh]

StaffTimeOff(pk, sd, ed, full, st, et, stat) ==
    [pk |-> pk, start_date |-> sd, end_date |-> ed, is_full_day |-> full,
     start_time |-> st, end_time |-> et, status |-> stat]

(***************************************************************************)
(* Dates and datetimes                                                     *)
(***************************************************************************)

weekday(d) == d % 7

combine(d, t) == d * DayLen + t

date_of(dt) == dt \div DayLen

time_of(dt) == dt % DayLen

(***************************************************************************)
(* Schedule resolver                                                       *)
(***************************************************************************)

\* StaffSchedule.Meta.ordering = ['-is_default', 'name'].
ordered_before(a, b) ==
    \/ a.is_default /\ ~b.is_default
    \/ a.is_default = b.is_default /\ a.name < b.name
    \/ a.is_default = b.is_default /\ a.name = b.name /\ a.pk < b.pk

\* A queryset of schedules, as the sequence the database returns.
ordering(S) ==
    CHOOSE seq \in [1..Cardinality(S) -> S] :
        /\ \A i, j \in 1..Cardinality(S) : i # j => seq[i] # seq[j]
        /\ \A i, j \in 1..Cardinality(S) : i < j => ordered_before(seq[i], seq[j])

is_applicable_on(s, target_date) ==
    IF ~s.is_active THEN FALSE
    ELSE IF s.effective_from # Null /\ target_date < s.effective_from THEN FALSE
    ELSE IF s.effective_until # Null /\ target_date > s.effective_until THEN FALSE
    ELSE TRUE

get_staff_schedule_for_date(scheds, target_date) ==
    LET active == ordering({s \in scheds : s.is_active})
        day_of_week == weekday(target_date)
        hits == {i \in 1..Len(active) :
                    /\ is_applicable_on(active[i], target_date)
                    /\ active[i].working_hours[day_of_week].found}
        first == CHOOSE i \in hits : \A j \in hits : i <= j
        defaults == ordering({s \in scheds : s.is_active /\ s.is_default})
    IN  IF hits # {} THEN active[first].working_hours[day_of_week]
        ELSE IF Len(defaults) > 0 THEN defaults[1].working_hours[day_of_week]
        ELSE NoRow

get_schedule_for_day(scheds, day_of_week) ==
    LET defaults == ordering({s \in scheds : s.is_default /\ s.is_active})
    IN  IF Len(defaults) = 0 THEN NoRow
        ELSE defaults[1].working_hours[day_of_week]

(***************************************************************************)
(* Point-in-time checks                                                    *)
(***************************************************************************)

\* A gate that lets staff on leave and terminated staff through.
not_active_only_inactive(st) == st = "inactive"

\* if staff.status != 'active': return False
not_active(st) == st # "active"

\* The filter without its status condition.
approved_time_off_any_status(toff, target_date) ==
    {to \in toff : /\ to.start_date <= target_date
                   /\ to.end_date >= target_date}

\* staff.time_off.filter(status='approved', start_date__lte, end_date__gte)
approved_time_off(toff, target_date) ==
    {to \in toff : /\ to.status = "approved"
                   /\ to.start_date <= target_date
                   /\ to.end_date >= target_date}

\* The loop over the filtered entries: any entry that returns False.
time_off_blocks(entries, target_time) ==
    \E to \in entries :
        \/ to.is_full_day
        \/ /\ to.start_time # Null /\ to.end_time # Null
           /\ to.start_time <= target_time /\ target_time <= to.end_time

\* The end of the working hours taken as a bookable instant.
outside_working_hours_end_inclusive(h, target_time) ==
    target_time < h.start_time \/ target_time > h.end_time

outside_working_hours(h, target_time) ==
    target_time < h.start_time \/ target_time >= h.end_time

in_break(h, target_time) ==
    /\ h.break_start # Null /\ h.break_end # Null
    /\ h.break_start <= target_time /\ target_time < h.break_end

is_available(st, scheds, toff, target_date, target_time) ==
    IF not_active(st) THEN FALSE
    ELSE IF time_off_blocks(approved_time_off(toff, target_date), target_time)
    THEN FALSE
    ELSE LET h == get_schedule_for_day(scheds, weekday(target_date))
         IN  IF ~h.found \/ ~h.is_working THEN FALSE
             ELSE IF outside_working_hours(h, target_time) THEN FALSE
             ELSE IF in_break(h, target_time) THEN FALSE
             ELSE TRUE

is_staff_available_at(st, scheds, toff, target_datetime) ==
    IF st # "active" THEN FALSE
    ELSE
      LET target_date == date_of(target_datetime)
          target_time == time_of(target_datetime)
          entries == {to \in toff : /\ to.status = "approved"
                                    /\ to.start_date <= target_date
                                    /\ to.end_date >= target_date}
          h == get_staff_schedule_for_date(scheds, target_date)
      IN  IF \E to \in entries :
                 \/ to.is_full_day
                 \/ /\ to.start_time # Null /\ to.end_time # Null
                    /\ to.start_time <= target_time
                    /\ target_time <= to.end_time
          THEN FALSE
          ELSE IF ~h.found \/ ~h.is_working THEN FALSE
          ELSE IF target_time < h.start_time \/ target_time >= h.end_time
          THEN FALSE
          ELSE IF /\ h.break_start # Null /\ h.break_end # Null
                  /\ h.break_start <= target_time /\ target_time < h.break_end
          THEN FALSE
          ELSE TRUE

(***************************************************************************)
(* Slot enumeration                                                        *)
(***************************************************************************)

\* The date range of a time-off taken without its last day.
full_day_time_off_end_exclusive(toff, target_date) ==
    \E to \in toff : /\ to.status = "approved"
                     /\ to.start_date <= target_date
                     /\ to.end_date > target_date
                     /\ to.is_full_day

\* staff.time_off.filter(status='approved', ..., is_full_day=True).exists()
full_day_time_off(toff, target_date) ==
    \E to \in toff : /\ to.status = "approved"
                     /\ to.start_date <= target_date
                     /\ to.end_date >= target_date
                     /\ to.is_full_day

\* A loop condition that forgets the duration of the slot.
loop_guard_without_duration(cur, duration_minutes, end) ==
    cur <= end

\* A loop condition that stops one candidate early.
loop_guard_strict(cur, duration_minutes, end) ==
    cur + duration_minutes < end

\* A loop condition that runs to the end of the day and not of the row.
loop_guard_until_midnight(cur, duration_minutes, end) ==
    date_of(cur + duration_minutes) = date_of(end)

\* while current + timedelta(minutes=duration_minutes) <= end
loop_guard(cur, duration_minutes, end) ==
    cur + duration_minutes <= end

\* A loop body without the break test.
overlaps_break_never(h, cur, duration_minutes) == FALSE

\* A break test that looks at the start of the candidate only.
overlaps_break_start_only(h, cur, duration_minutes) ==
    /\ h.break_start # Null /\ h.break_end # Null
    /\ h.break_start <= time_of(cur) /\ time_of(cur) < h.break_end

\* The break test of the loop body: the candidate is skipped.
overlaps_break(h, cur, duration_minutes) ==
    /\ h.break_start # Null /\ h.break_end # Null
    /\ ~(\/ time_of(cur + duration_minutes) <= h.break_start
         \/ time_of(cur) >= h.break_end)

\* The number of time units of the working-hours window, both ends counted.
WindowBound(h) ==
    IF h.found /\ h.end_time >= h.start_time
    THEN h.end_time - h.start_time + 1 ELSE 0

NoQuery ==
    [date |-> Null, time |-> Null, duration |-> Null, interval |-> Null,
     service_id |-> Null]

\* No earlier call of get_available_slots is remembered.
NoCall == [q |-> NoQuery, slots |-> <<>>]

\* No endpoint has answered: the record asked for and the HTTP status.
NoResponse == [pk |-> Null, code |-> Null]

Idle == pc = "idle"

IsAvailable(d, t) ==
    /\ Idle
    /\ op' = "is_available"
    /\ q' = [NoQuery EXCEPT !.date = d, !.time = t]
    /\ result' = is_available(status, schedules, time_off, d, t)
    /\ pc' = "done"
    /\ hours' = NoRow /\ current' = Null /\ slots' = <<>> /\ available' = <<>>
    /\ UNCHANGED <<store, prev, client>>

IsStaffAvailableAt(d, t) ==
    /\ Idle
    /\ op' = "is_staff_available_at"
    /\ q' = [NoQuery EXCEPT !.date = d, !.time = t]
    /\ result' = is_staff_available_at(status, schedules, time_off, combine(d, t))
    /\ pc' = "done"
    /\ hours' = NoRow /\ current' = Null /\ slots' = <<>> /\ available' = <<>>
    /\ UNCHANGED <<store, prev, client>>

\* The schedule resolver called on its own; hours holds the row it returns.
GetStaffScheduleForDate(d) ==
    /\ Idle
    /\ op' = "get_staff_schedule_for_date"
    /\ q' = [NoQuery EXCEPT !.date = d]
    /\ hours' = get_staff_schedule_for_date(schedules, d)
    /\ result' = FALSE
    /\ pc' = "done"
    /\ current' = Null /\ slots' = <<>> /\ available' = <<>>
    /\ UNCHANGED <<store, prev, client>>

\* A list that lives on between the calls.
slots_of_last_call(old) == old

\* slots = []
empty_slots(old) == <<>>

\* get_available_slots up to the entry of its loop.
GetAvailableSlots(d, duration_minutes, slot_interval) ==
    /\ Idle
    /\ op' = "get_available_slots"
    /\ q' = [NoQuery EXCEPT !.date = d, !.duration = duration_minutes,
                            !.interval = slot_interval]
    /\ result' = FALSE
    /\ slots' = empty_slots(slots)
    /\ LET h == get_staff_schedule_for_date(schedules, d)
       IN  /\ hours' = h
           /\ IF ~h.found \/ ~h.is_working
              THEN pc' = "done" /\ current' = Null
              ELSE IF full_day_time_off(time_off, d)
              THEN pc' = "done" /\ current' = Null
              ELSE pc' = "loop" /\ current' = combine(d, h.start_time)
    /\ available' = <<>>
    /\ UNCHANGED <<store, prev, client>>

\* One iteration of the while loop.  The model follows a run until it has
\* emitted one slot more than the window holds time units.
SlotLoop ==
    /\ pc = "loop"
    /\ loop_guard(current, q.duration, combine(q.date, hours.end_time))
    /\ Len(slots) <= WindowBound(hours)
    /\ IF overlaps_break(hours, current, q.duration)
       THEN slots' = slots
       ELSE slots' = Append(slots, time_of(current))
    /\ current' = current + q.interval
    /\ UNCHANGED <<store, pc, op, q, result, hours, available, prev, client>>

\* The loop condition fails: return slots.
SlotReturn ==
    /\ pc = "loop"
    /\ ~loop_guard(current, q.duration, combine(q.date, hours.end_time))
    /\ pc' = "done"
    /\ current' = Null
    /\ UNCHANGED <<store, op, q, result, hours, slots, available, prev, client>>

\* The caller has taken the result; the next query starts afresh.
Finish ==
    /\ pc = "done"
    /\ pc' = "idle" /\ op' = "none" /\ q' = NoQuery /\ result' = FALSE
    /\ hours' = NoRow /\ current' = Null /\ slots' = <<>> /\ available' = <<>>
    /\ response' = NoResponse
    /\ UNCHANGED <<store, prev, held, saving>>

Next ==
    \/ \E d \in Dates : GetStaffScheduleForDate(d)
    \/ \E d \in Dates, t \in Times : IsAvailable(d, t)
    \/ \E d \in Dates, t \in Times : IsStaffAvailableAt(d, t)
    \/ \E d \in Dates, dur \in Durations, int \in Intervals :
          GetAvailableSlots(d, dur, int)
    \/ SlotLoop
    \/ SlotReturn
    \/ Finish

(***************************************************************************)
(* Stored data                                                             *)
(***************************************************************************)

NoQueryYet ==
    /\ pc = "idle" /\ op = "none" /\ q = NoQuery /\ result = FALSE
    /\ hours = NoRow /\ current = Null /\ slots = <<>> /\ available = <<>>
    /\ prev = NoCall
    /\ held = {} /\ saving = {} /\ response = NoResponse

\* The store of a single staff member whose working-hours rows are held
\* inside its schedules.
SingleStaff == working_hours = {} /\ members = {}

\* Working hours 09:00-17:00 with a break 12:00-13:00.
ScenarioRow == StaffWorkingHours(TRUE, 36, 68, 48, 52)

WorkingRows ==
    {StaffWorkingHours(TRUE, s, e, bs, be) :
        s \in Times, e \in Times, bs \in OptTimes, be \in OptTimes}

DayOffRows ==
    {StaffWorkingHours(FALSE, s, e, Null, Null) : s \in Times, e \in Times}

OnWeekday(w, r) == [x \in Weekdays |-> IF x = w THEN r ELSE NoRow]

EveryWeekday(r) == [x \in Weekdays |-> r]

FullDay(sd, ed, stat) == StaffTimeOff(1, sd, ed, TRUE, Null, Null, stat)

PartialDay(sd, ed, st, et, stat) == StaffTimeOff(1, sd, ed, FALSE, st, et, stat)

\* One default schedule whose Monday row ranges over every row.
InitRows ==
    /\ status = "active"
    /\ \E r \in WorkingRows \cup DayOffRows \cup {ScenarioRow} :
          schedules = {StaffSchedule(1, 1, TRUE, TRUE, Null, Null, OnWeekday(0, r))}
    /\ time_off \in {{}, {FullDay(0, 0, "pending")},
                     {PartialDay(0, 0, 0, MaxT, "approved")}}
    /\ SingleStaff
    /\ NoQueryYet

SpecRows == InitRows /\ [][Next]_vars

\* A default schedule that works every day from time 0 to MaxT, and every
\* single time-off record, under every staff status.
TimeOffRecords ==
    {FullDay(sd, ed, stat) :
        sd \in Dates, ed \in Dates, stat \in TimeOffStatuses}
    \cup
    {PartialDay(sd, ed, st, et, stat) :
        sd \in Dates, ed \in Dates, st \in OptTimes, et \in OptTimes,
        stat \in TimeOffStatuses}

TwoPartialDays ==
    {PartialDay(0, MaxDate, 0, 0, "approved"),
     StaffTimeOff(2, 0, MaxDate, FALSE, MaxT, MaxT, "approved")}

InitTimeOff ==
    /\ status \in StaffStatuses
    /\ schedules = {StaffSchedule(1, 1, TRUE, TRUE, Null, Null,
                        EveryWeekday(StaffWorkingHours(TRUE, 0, MaxT, Null, Null)))}
    /\ time_off \in {{}} \cup {TwoPartialDays}
                    \cup {{r} : r \in {x \in TimeOffRecords : x.end_date >= x.start_date}}
    /\ SingleStaff
    /\ NoQueryYet

\* Up to two schedules with effective windows, at most one of them default.
RowOf(pk) == StaffWorkingHours(TRUE, pk - 1, MaxT, Null, Null)

SchedulesOf(pk, name) ==
    {StaffSchedule(pk, name, dflt, active, from, until, EveryWeekday(r)) :
        dflt \in BOOLEAN, active \in BOOLEAN, from \in {Null, 1},
        until \in {Null, 0}, r \in {NoRow, RowOf(pk)}}

InitSchedules ==
    /\ status = "active"
    /\ time_off = {}
    /\ \/ schedules = {}
       \/ \E a \in SchedulesOf(1, 1) : schedules = {a}
       \/ \E n \in {1, 2} : \E a \in SchedulesOf(1, n), b \in SchedulesOf(2, 3 - n) :
             /\ ~(a.is_default /\ b.is_default)
             /\ schedules = {a, b}
    /\ SingleStaff
    /\ NoQueryYet

SpecTimeOff == InitTimeOff /\ [][Next]_vars

SpecSchedules == InitSchedules /\ [][Next]_vars

Init == InitRows \/ InitTimeOff \/ InitSchedules

Spec == Init /\ [][Next]_vars

(***************************************************************************)
(* Properties                                                              *)
(***************************************************************************)

PointQueries == {"is_available", "is_staff_available_at"}

Answered(o) == pc = "done" /\ op = o

SlotSet == {slots[i] : i \in 1..Len(slots)}

\* A full-day time-off with a status in stats whose inclusive date range
\* holds the date d.
FullDayCovering(stats, d) ==
    \E to \in time_off : /\ to.status \in stats /\ to.is_full_day
                         /\ to.start_date <= d /\ d <= to.end_date

\* The slot loop would be entered for the answered query.
WouldEmit ==
    /\ hours.found /\ hours.is_working
    /\ hours.start_time + q.duration <= hours.end_time

\* C1: for a staff member whose status is not 'active', is_available and
\* is_staff_available_at return false for every date and time, whatever
\* schedules, working hours and time-off records are stored.
C1_StatusGate ==
    (pc = "done" /\ op \in PointQueries /\ status # "active") => result = FALSE

\* A staff member on leave is refused at a time at which an active one
\* with the same data is available.
C1_Witness ==
    /\ Answered("is_available") /\ status = "on_leave" /\ result = FALSE
    /\ is_available("active", schedules, time_off, q.date, q.time)

\* C2: on a date on which none of the staff member's schedules is
\* applicable (none is active, or every active one has effective_from after
\* the date or effective_until before it), is_available returns false at
\* every time and get_available_slots returns an empty sequence.
C2_NoApplicableSchedule ==
    (pc = "done" /\ \A s \in schedules : ~is_applicable_on(s, q.date)) =>
        /\ op = "is_available" => result = FALSE
        /\ op = "get_available_slots" => slots = <<>>

\* C3: with an approved full-day time-off whose inclusive date range holds
\* the target date, get_available_slots never enters its loop and returns
\* an empty list, and the point-in-time checks return false at every time.
C3_ApprovedFullDay ==
    (op # "none" /\ FullDayCovering({"approved"}, q.date)) =>
        /\ pc = "done"
        /\ slots = <<>>
        /\ op \in PointQueries => result = FALSE

\* An approved full-day time-off empties a day whose working hours have
\* room for the requested slot.
C3_Witness ==
    /\ Answered("get_available_slots")
    /\ FullDayCovering({"approved"}, q.date)
    /\ \E to \in time_off : to.end_date = q.date
    /\ WouldEmit /\ q.interval > 0 /\ slots = <<>>

\* C4: a pending full-day time-off covering the target date blocks as an
\* approved one does: is_available returns false at every time of the date
\* and get_available_slots returns an empty sequence.
C4_PendingFullDay ==
    (pc = "done" /\ FullDayCovering({"pending"}, q.date)) =>
        /\ op = "is_available" => result = FALSE
        /\ op = "get_available_slots" => slots = <<>>

\* The staff member is active, no time-off record covers the date, and the
\* only schedule is an active default one whose row for the weekday is a
\* working row with start_time < end_time.
SimpleSchedule(d) ==
    /\ status = "active"
    /\ \A to \in time_off : ~(to.start_date <= d /\ d <= to.end_date)
    /\ Cardinality(schedules) = 1
    /\ \A s \in schedules :
          /\ s.is_default /\ s.is_active
          /\ s.working_hours[weekday(d)].found
          /\ s.working_hours[weekday(d)].is_working
          /\ s.working_hours[weekday(d)].start_time
                < s.working_hours[weekday(d)].end_time

RowOn(d) == (CHOOSE s \in schedules : TRUE).working_hours[weekday(d)]

HasBreak(r) == r.break_start # Null /\ r.break_end # Null

InsideBreak(r, t) == HasBreak(r) /\ r.break_start <= t /\ t < r.break_end

\* C5 as stated: under SimpleSchedule, is_available is true exactly when
\* start_time <= t < end_time and t is not inside the break; it is true at
\* start_time and at break_end, false at end_time and inside the break.
C5_Original ==
    (Answered("is_available") /\ SimpleSchedule(q.date)) =>
        LET r == RowOn(q.date)
            t == q.time
        IN  /\ result = (r.start_time <= t /\ t < r.end_time /\ ~InsideBreak(r, t))
            /\ t = r.start_time => result = TRUE
            /\ (HasBreak(r) /\ t = r.break_end) => result = TRUE
            /\ t = r.end_time => result = FALSE
            /\ InsideBreak(r, t) => result = FALSE

\* C5: under SimpleSchedule, is_available is true exactly when
\* start_time <= t < end_time and t is not inside the break
\* [break_start, break_end); it is true at start_time unless start_time lies
\* inside the break, true at break_end when start_time <= break_end <
\* end_time, false at end_time and at every t inside the break.
C5_WorkingHours ==
    (Answered("is_available") /\ SimpleSchedule(q.date)) =>
        LET r == RowOn(q.date)
            t == q.time
        IN  /\ result = (r.start_time <= t /\ t < r.end_time /\ ~InsideBreak(r, t))
            /\ (t = r.start_time /\ ~InsideBreak(r, r.start_time)) => result = TRUE
            /\ (HasBreak(r) /\ t = r.break_end /\ r.start_time <= r.break_end
                  /\ r.break_end < r.end_time) => result = TRUE
            /\ t = r.end_time => result = FALSE
            /\ InsideBreak(r, t) => result = FALSE

\* The check answers true at the end of a break that lies inside the
\* working hours.
C5_Witness ==
    /\ Answered("is_available") /\ SimpleSchedule(q.date)
    /\ HasBreak(RowOn(q.date))
    /\ RowOn(q.date).start_time < RowOn(q.date).break_start
    /\ RowOn(q.date).break_start < RowOn(q.date).break_end
    /\ RowOn(q.date).break_end < RowOn(q.date).end_time
    /\ q.time = RowOn(q.date).break_end
    /\ result = TRUE

\* C6: for an active staff member with a partial-day time-off of a blocking
\* status (pending or approved) covering the target date, is_available
\* returns false at every t with start_time <= t <= end_time of the record,
\* both bounds included; at any other t the record does not change the
\* result.
C6_PartialDayInclusive ==
    (Answered("is_available") /\ status = "active") =>
        \A to \in time_off :
            (/\ to.status \in {"pending", "approved"}
             /\ ~to.is_full_day /\ to.start_time # Null /\ to.end_time # Null
             /\ to.start_date <= q.date /\ q.date <= to.end_date) =>
                IF to.start_time <= q.time /\ q.time <= to.end_time
                THEN result = FALSE
                ELSE result = is_available(status, schedules, time_off \ {to},
                                           q.date, q.time)

\* C7: get_available_slots emits no more slots than the working-hours
\* window holds time units, for every duration and interval passed to it.
C7_SlotsBounded ==
    op = "get_available_slots" => Len(slots) <= WindowBound(hours)

\* C8: get_available_slots never emits a start time t with t + duration
\* later than the end_time of the resolved working hours.
C8_EndContainment ==
    op = "get_available_slots" =>
        \A i \in 1..Len(slots) : slots[i] + q.duration <= hours.end_time

\* The last slot returned ends exactly at end_time.
C8_Witness ==
    /\ Answered("get_available_slots") /\ Len(slots) > 1 /\ q.duration > 0
    /\ slots[Len(slots)] + q.duration = hours.end_time

\* C9: get_available_slots never emits a slot that overlaps a defined break
\* window: every emitted t has t + duration <= break_start or
\* t >= break_end.
C9_NoBreakOverlap ==
    (op = "get_available_slots" /\ HasBreak(hours)) =>
        \A i \in 1..Len(slots) :
            \/ slots[i] + q.duration <= hours.break_start
            \/ slots[i] >= hours.break_end

\* Slots are returned on both sides of a break and a candidate between
\* them, whose interval runs into the break, is left out.
C9_Witness ==
    /\ Answered("get_available_slots") /\ HasBreak(hours) /\ q.duration > 0
    /\ \E i, j \in 1..Len(slots) :
          /\ slots[i] + q.duration <= hours.break_start
          /\ slots[j] >= hours.break_end
          /\ \E c \in slots[i]..slots[j] :
                /\ c \notin SlotSet
                /\ c < hours.break_start
                /\ c + q.duration > hours.break_start

\* The candidates start_time + k * slot_interval (k = 0, 1, 2, ...) that end
\* by end_time and do not overlap the break.
ExpectedSlots(h, duration_minutes, slot_interval) ==
    {c \in h.start_time..(h.end_time - duration_minutes) :
        /\ \E k \in 0..(c - h.start_time) : c = h.start_time + k * slot_interval
        /\ ~(HasBreak(h) /\ ~(\/ c + duration_minutes <= h.break_start
                              \/ c >= h.break_end))}

\* C10: on a working day without an approved full-day time-off,
\* get_available_slots returns, in strictly ascending order, exactly the
\* candidates start_time + k * slot_interval with c + duration <= end_time
\* that do not overlap the break; for hours 09:00-17:00, break 12:00-13:00,
\* duration 60 and interval 15 the list holds 09:00 and 11:00 and holds
\* neither 11:30 nor 17:00.
C10_ExactSlots ==
    (/\ Answered("get_available_slots")
     /\ hours.found /\ hours.is_working
     /\ ~FullDayCovering({"approved"}, q.date)) =>
        /\ \A i, j \in 1..Len(slots) : i < j => slots[i] < slots[j]
        /\ SlotSet = ExpectedSlots(hours, q.duration, q.interval)
        /\ (hours = ScenarioRow /\ q.duration = 4 /\ q.interval = 1) =>
              /\ 36 \in SlotSet /\ 44 \in SlotSet
              /\ 46 \notin SlotSet /\ 68 \notin SlotSet

\* The scenario of the 09:00-17:00 day is answered, with slots before and
\* after the break.
C10_Witness ==
    /\ Answered("get_available_slots")
    /\ hours = ScenarioRow /\ q.duration = 4 /\ q.interval = 1
    /\ 36 \in SlotSet /\ 44 \in SlotSet /\ 52 \in SlotSet /\ 64 \in SlotSet
    /\ 46 \notin SlotSet

\* The schedules that are applicable on the date of the answered query.
Applicable == {s \in schedules : is_applicable_on(s, q.date)}

\* The stored row of schedule s for the weekday of the date asked about.
RowFor(s) == s.working_hours[weekday(q.date)]

\* C11: when more than one active schedule is applicable on the target
\* date, get_staff_schedule_for_date returns the working-hours row of the
\* one flagged is_default and not that of a non-default one.
C11_DefaultPreferred ==
    (/\ Answered("get_staff_schedule_for_date")
     /\ Cardinality(Applicable) > 1)
    => \A s \in Applicable : s.is_default => hours = RowFor(s)

\* C12: if the default schedule among the applicable ones has no row for
\* the weekday, the resolver returns None; the row is not taken from
\* another schedule.
C12_MissingRowIsNone ==
    (/\ Answered("get_staff_schedule_for_date")
     /\ \E s \in Applicable : s.is_default /\ ~RowFor(s).found)
    => ~hours.found

\* C13: the resolver never returns working hours taken from a schedule
\* that is not applicable on the target date (active, effective_from unset
\* or <= date, effective_until unset or >= date).
C13_OnlyApplicable ==
    (Answered("get_staff_schedule_for_date") /\ hours.found)
    => \E s \in Applicable : hours = RowFor(s)

(***************************************************************************)
(* Schedule writes                                                         *)
(***************************************************************************)

MaxSchedules == 3

default_work_start == 36
default_work_end == 72

\* The status of a staff member that has not been created yet.
NoStaff == "none"

\* The names a schedule is given; 0 stands for "Default Schedule".
ScheduleNames == 0..2

\* The rows that _create_default_schedule stores: Monday to Friday working
\* with the configured times, Saturday and Sunday off from 09:00 to 18:00.
DefaultRows ==
    [x \in Weekdays |->
        IF x < 5
        THEN StaffWorkingHours(TRUE, default_work_start, default_work_end, Null, Null)
        ELSE StaffWorkingHours(FALSE, 36, 72, Null, Null)]

\* The primary key of the next inserted record of a table.
NextPk(S) == IF S = {} THEN 1 ELSE 1 + CHOOSE m \in {x.pk : x \in S} :
                                       \A x \in S : x.pk <= m

\* A save that writes the record and leaves the other flags alone.
StaffSchedule_save_keeping_defaults(scheds, s) ==
    {x \in scheds : x.pk # s.pk} \cup {s}

\* StaffSchedule.save: a default schedule clears the flag of the others.
StaffSchedule_save(scheds, s) ==
    LET others == {x \in scheds : x.pk # s.pk}
    IN  IF s.is_default
        THEN {[x EXCEPT !.is_default = FALSE] : x \in others} \cup {s}
        ELSE others \cup {s}

\* A write call has returned; ok is false when it returned an error.
Returned(o, ok) ==
    /\ op' = o /\ result' = ok /\ hours' = NoRow
    /\ UNCHANGED <<pc, q, current, slots, available, prev, client>>

CreateStaffMember ==
    /\ status = NoStaff
    /\ status' = "active"
    /\ schedules' = StaffSchedule_save(schedules,
           StaffSchedule(NextPk(schedules), 0, TRUE, TRUE, Null, Null, DefaultRows))
    /\ Returned("create_staff_member", TRUE)
    /\ UNCHANGED <<time_off, working_hours, members>>

CreateSchedule(name, is_default, effective_from, effective_until) ==
    /\ status # NoStaff
    /\ NextPk(schedules) <= MaxSchedules
    /\ schedules' = StaffSchedule_save(schedules,
           StaffSchedule(NextPk(schedules), name, is_default, TRUE,
                         effective_from, effective_until, EveryWeekday(NoRow)))
    /\ Returned("create_schedule", TRUE)
    /\ UNCHANGED <<status, time_off, working_hours, members>>

\* update_schedule with the keyword arguments name, is_default, is_active
\* and effective_from; an argument equal to the stored value changes nothing.
UpdateSchedule(schedule, name, is_default, is_active, effective_from) ==
    /\ schedule \in schedules
    /\ schedules' = StaffSchedule_save(schedules,
           [schedule EXCEPT !.name = name, !.is_default = is_default,
                            !.is_active = is_active,
                            !.effective_from = effective_from])
    /\ Returned("update_schedule", TRUE)
    /\ UNCHANGED <<status, time_off, working_hours, members>>

\* A count test that lets every schedule go.
is_last_schedule_never(scheds) == FALSE

\* schedule.staff.schedules.count() <= 1
is_last_schedule(scheds) == Cardinality(scheds) <= 1

\* delete_schedule on the instance schedule, whose is_default is the value
\* the caller's object holds: the schedules afterwards and the success flag.
delete_schedule(scheds, schedule) ==
    IF is_last_schedule(scheds)
    THEN [schedules |-> scheds, ok |-> FALSE]
    ELSE LET others == {x \in scheds : x.pk # schedule.pk}
             saved == IF schedule.is_default /\ others # {}
                      THEN StaffSchedule_save(scheds,
                               [ordering(others)[1] EXCEPT !.is_default = TRUE])
                      ELSE scheds
         IN  [schedules |-> {x \in saved : x.pk # schedule.pk}, ok |-> TRUE]

\* delete_schedule on a schedule just loaded from the table.
DeleteSchedule(schedule) ==
    /\ schedule \in schedules
    /\ schedules' = delete_schedule(schedules, schedule).schedules
    /\ Returned("delete_schedule", delete_schedule(schedules, schedule).ok)
    /\ UNCHANGED <<status, time_off, working_hours, members>>

NextSchedule ==
    \/ CreateStaffMember
    \/ \E name \in ScheduleNames \ {0}, is_default \in BOOLEAN :
          CreateSchedule(name, is_default, Null, Null)
    \/ \E schedule \in schedules, name \in ScheduleNames \ {0},
          is_default \in BOOLEAN, is_active \in BOOLEAN :
          UpdateSchedule(schedule, name, is_default, is_active,
                         schedule.effective_from)
    \/ \E schedule \in schedules : DeleteSchedule(schedule)

\* No staff member yet, or one stored without any schedule.
InitScheduleWrites ==
    /\ status \in {NoStaff, "active"}
    /\ schedules = {}
    /\ time_off = {}
    /\ SingleStaff
    /\ NoQueryYet

SpecScheduleWrites == InitScheduleWrites /\ [][NextSchedule]_vars

\* C14: after any sequence of create_staff_member, create_schedule,
\* update_schedule and delete_schedule calls the staff member has at most
\* one schedule with is_default true.
C14_OneDefault ==
    Cardinality({s \in schedules : s.is_default}) <= 1

\* A second default schedule has been saved and the schedule created with
\* the staff member has lost the flag.
C14_Witness ==
    /\ op \in {"create_schedule", "update_schedule"}
    /\ \E a \in schedules, b \in schedules :
          /\ a.pk = 1 /\ a.name = 0 /\ ~a.is_default
          /\ b.pk > 1 /\ b.is_default

(***************************************************************************)
(* Time-off writes                                                         *)
(***************************************************************************)

MaxTimeOff == 2

\* A keyword argument that the caller does not pass.
Absent == -2

CreateTimeOff(start_date, end_date, is_full_day, stat) ==
    /\ status # NoStaff
    /\ NextPk(time_off) <= MaxTimeOff
    /\ IF end_date < start_date
       THEN /\ time_off' = time_off
            /\ Returned("create_time_off", FALSE)
       ELSE /\ time_off' = time_off \cup
                   {StaffTimeOff(NextPk(time_off), start_date, end_date,
                                 is_full_day, Null, Null, stat)}
            /\ Returned("create_time_off", TRUE)
    /\ UNCHANGED <<status, schedules, working_hours, members>>

\* update_time_off with the keyword arguments start_date and end_date, each
\* of them passed or not.
UpdateTimeOff(to, start_date, end_date) ==
    /\ to \in time_off
    /\ IF start_date # Absent /\ end_date # Absent /\ end_date < start_date
       THEN /\ time_off' = time_off
            /\ Returned("update_time_off", FALSE)
       ELSE /\ time_off' = (time_off \ {to}) \cup
                   {[to EXCEPT
                       !.start_date = IF start_date = Absent THEN @ ELSE start_date,
                       !.end_date = IF end_date = Absent THEN @ ELSE end_date]}
            /\ Returned("update_time_off", TRUE)
    /\ UNCHANGED <<status, schedules, working_hours, members>>

NextTimeOff ==
    \/ \E start_date \in Dates, end_date \in Dates, is_full_day \in BOOLEAN,
          stat \in {"approved", "pending"} :
          CreateTimeOff(start_date, end_date, is_full_day, stat)
    \/ \E to \in time_off, start_date \in Dates \cup {Absent},
          end_date \in Dates \cup {Absent} :
          UpdateTimeOff(to, start_date, end_date)

\* A staff member without time-off records.
InitTimeOffWrites ==
    /\ status = "active"
    /\ schedules = {}
    /\ time_off = {}
    /\ SingleStaff
    /\ NoQueryYet

SpecTimeOffWrites == InitTimeOffWrites /\ [][NextTimeOff]_vars

\* C18: after any sequence of create_time_off and update_time_off calls
\* every stored time-off record has end_date >= start_date.
C18_DatesOrdered ==
    \A to \in time_off : to.end_date >= to.start_date

(***************************************************************************)
(* Working-hours writes                                                    *)
(*                                                                         *)
(* The table of StaffWorkingHours rows, each with its primary key, its     *)
(* schedule and its weekday, under the unique constraint of the model.     *)
(***************************************************************************)

WriteTimes == {0, 1}
WriteDays == {0, 1}

\* A day_of_week that int() does not accept.
BadDay == -3

HoursRow(pk, schedule, day_of_week, w, s, e, bs, be) ==
    [pk |-> pk, schedule |-> schedule, day_of_week |-> day_of_week,
     is_working |-> w, start_time |-> s, end_time |-> e,
     break_start |-> bs, break_end |-> be]

\* The row as a lookup returns it.
as_hours(r) ==
    StaffWorkingHours(r.is_working, r.start_time, r.end_time,
                      r.break_start, r.break_end)

\* StaffWorkingHours.clean raises no ValidationError.
clean(r) ==
    r.is_working =>
        /\ r.end_time > r.start_time
        /\ (r.break_start # Null /\ r.break_end # Null) =>
              /\ r.break_end > r.break_start
              /\ r.break_start >= r.start_time /\ r.break_end <= r.end_time

\* A table without the constraint.
unique_together_unchecked(table, r) == TRUE

\* unique_together = ['schedule', 'day_of_week']: the table accepts row r.
unique_together(table, r) ==
    ~\E x \in table : /\ x.pk # r.pk
                      /\ x.schedule = r.schedule
                      /\ x.day_of_week = r.day_of_week

\* schedule.working_hours.filter(day_of_week=...)
rows_for(table, schedule, day_of_week) ==
    {x \in table : x.schedule = schedule /\ x.day_of_week = day_of_week}

\* set_working_hours: update_or_create on (schedule, day_of_week).  hours
\* holds the row that the lookup of update_or_create found.
SetWorkingHours(schedule, day_of_week, start_time, end_time, break_start, break_end, is_day_off) ==
    LET found == rows_for(working_hours, schedule, day_of_week)
        s == IF start_time = Null THEN 36 ELSE start_time
        e == IF end_time = Null THEN 72 ELSE end_time
    IN  /\ op' = "set_working_hours"
        /\ IF found = {}
           THEN LET r == HoursRow(NextPk(working_hours), schedule, day_of_week,
                                  ~is_day_off, s, e, break_start, break_end)
                IN  /\ hours' = NoRow
                    /\ IF unique_together(working_hours, r)
                       THEN working_hours' = working_hours \cup {r} /\ result' = TRUE
                       ELSE working_hours' = working_hours /\ result' = FALSE
           ELSE IF Cardinality(found) = 1
           THEN LET old == CHOOSE x \in found : TRUE
                    r == HoursRow(old.pk, schedule, day_of_week,
                                  ~is_day_off, s, e, break_start, break_end)
                IN  /\ hours' = as_hours(old)
                    /\ IF unique_together(working_hours, r)
                       THEN /\ working_hours' = (working_hours \ {old}) \cup {r}
                            /\ result' = TRUE
                       ELSE working_hours' = working_hours /\ result' = FALSE
           ELSE /\ hours' = NoRow
                /\ working_hours' = working_hours /\ result' = FALSE
        /\ UNCHANGED <<status, schedules, time_off, members,
                       pc, q, current, slots, available, prev, client>>

\* update_working_hours with the keyword arguments day_of_week, end_time
\* and is_day_off, each of them passed or not.
UpdateWorkingHours(row, day_of_week, end_time, is_day_off) ==
    /\ row \in working_hours
    /\ LET r == [row EXCEPT
                   !.day_of_week = IF day_of_week = Absent THEN @ ELSE day_of_week,
                   !.end_time = IF end_time = Absent THEN @ ELSE end_time,
                   !.is_working = IF is_day_off = "absent" THEN @
                                  ELSE is_day_off = "false"]
       IN  IF unique_together(working_hours, r)
           THEN /\ working_hours' = (working_hours \ {row}) \cup {r}
                /\ Returned("update_working_hours", TRUE)
           ELSE /\ working_hours' = working_hours
                /\ Returned("update_working_hours", FALSE)
    /\ UNCHANGED <<status, schedules, time_off, members>>

\* The loop of save_working_hours over hours_data: an entry without day is
\* skipped, a day that is no integer raises ValueError, a row that the
\* table refuses raises IntegrityError.
RECURSIVE create_all(_, _, _)
create_all(table, schedule, hours_data) ==
    IF hours_data = <<>> THEN [rows |-> table, error |-> "none"]
    ELSE LET data == Head(hours_data)
             r == HoursRow(NextPk(table), schedule, data.day_of_week,
                           data.is_working, data.start_time, data.end_time,
                           data.break_start, data.break_end)
         IN  IF data.day_of_week = Null
             THEN create_all(table, schedule, Tail(hours_data))
             ELSE IF data.day_of_week = BadDay
             THEN [rows |-> table, error |-> "ValueError"]
             ELSE IF ~unique_together(table, r)
             THEN [rows |-> table, error |-> "IntegrityError"]
             ELSE create_all(table \cup {r}, schedule, Tail(hours_data))

\* save_working_hours: a database error inside the atomic block marks the
\* transaction for rollback; any other exception is caught and what was
\* written up to it is committed.
SaveWorkingHours(schedule, hours_data) ==
    /\ LET kept == {x \in working_hours : x.schedule # schedule}
           out == create_all(kept, schedule, hours_data)
       IN  /\ working_hours' = IF out.error = "IntegrityError"
                               THEN working_hours ELSE out.rows
           /\ Returned("save_working_hours", out.error = "none")
    /\ UNCHANGED <<status, schedules, time_off, members>>

\* The loop of the working_hours_save endpoint: int(h['day_of_week'])
\* raises for a missing day as well.
RECURSIVE view_create_all(_, _, _)
view_create_all(table, schedule, hours_data) ==
    IF hours_data = <<>> THEN [rows |-> table, error |-> "none"]
    ELSE LET h == Head(hours_data)
             r == HoursRow(NextPk(table), schedule, h.day_of_week,
                           h.is_working, h.start_time, h.end_time,
                           h.break_start, h.break_end)
         IN  IF h.day_of_week \in {Null, BadDay}
             THEN [rows |-> table, error |-> "ValueError"]
             ELSE IF ~unique_together(table, r)
             THEN [rows |-> table, error |-> "IntegrityError"]
             ELSE view_create_all(table \cup {r}, schedule, Tail(hours_data))

\* The working_hours_save endpoint.  Whether the request runs in one
\* transaction is a setting of the deployment.
WorkingHoursSave(schedule, hours_data, atomic_requests) ==
    /\ LET kept == {x \in working_hours : x.schedule # schedule}
           out == view_create_all(kept, schedule, hours_data)
       IN  /\ working_hours' = IF out.error = "IntegrityError" /\ atomic_requests
                               THEN working_hours ELSE out.rows
           /\ Returned("working_hours_save", out.error = "none")
    /\ UNCHANGED <<status, schedules, time_off, members>>

\* StaffWorkingHours.objects.create for one row.
CreateWorkingHours(schedule, day_of_week, start_time, end_time) ==
    /\ LET r == HoursRow(NextPk(working_hours), schedule, day_of_week, TRUE,
                         start_time, end_time, Null, Null)
       IN  IF unique_together(working_hours, r)
           THEN /\ working_hours' = working_hours \cup {r}
                /\ Returned("create", TRUE)
           ELSE /\ working_hours' = working_hours
                /\ Returned("create", FALSE)
    /\ UNCHANGED <<status, schedules, time_off, members>>

\* The entries of hours_data: a valid row, a row that ends before it
\* starts, a row whose break ends before it starts, each for a weekday,
\* without day or with a day that is no integer.
HoursEntry(d, s, e, bs, be) ==
    [day_of_week |-> d, is_working |-> TRUE, start_time |-> s,
     end_time |-> e, break_start |-> bs, break_end |-> be]

HoursEntries ==
    {HoursEntry(d, r[1], r[2], r[3], r[4]) :
        d \in WriteDays \cup {Null, BadDay},
        r \in {<<0, 1, Null, Null>>, <<1, 0, Null, Null>>, <<0, 1, 1, 0>>}}

\* Lists of up to two entries; the second one holds the valid row.
HoursData ==
    {<<>>} \cup {<<a>> : a \in HoursEntries}
           \cup {<<a, HoursEntry(d, 0, 1, Null, Null)>> :
                    a \in HoursEntries, d \in WriteDays \cup {Null, BadDay}}

NextHours ==
    \/ \E day_of_week \in WriteDays, start_time \in WriteTimes,
          end_time \in WriteTimes \cup {Null}, is_day_off \in BOOLEAN :
          SetWorkingHours(1, day_of_week, start_time, end_time, Null, Null,
                          is_day_off)
    \/ \E row \in working_hours, day_of_week \in WriteDays \cup {Absent},
          end_time \in WriteTimes \cup {Absent},
          is_day_off \in {"absent", "true", "false"} :
          UpdateWorkingHours(row, day_of_week, end_time, is_day_off)
    \/ \E hours_data \in HoursData : SaveWorkingHours(1, hours_data)
    \/ \E hours_data \in HoursData, atomic_requests \in BOOLEAN :
          WorkingHoursSave(1, hours_data, atomic_requests)
    \/ \E day_of_week \in WriteDays, start_time \in WriteTimes,
          end_time \in WriteTimes :
          CreateWorkingHours(1, day_of_week, start_time, end_time)

\* One schedule without working-hours rows.
InitHoursWrites ==
    /\ status = "active"
    /\ schedules = {StaffSchedule(1, 1, TRUE, TRUE, Null, Null, EveryWeekday(NoRow))}
    /\ time_off = {}
    /\ working_hours = {} /\ members = {}
    /\ NoQueryYet

SpecHoursWrites == InitHoursWrites /\ [][NextHours]_vars

\* C17: every stored working-hours row with is_working true has
\* end_time > start_time and, when both break bounds are present,
\* break_end > break_start with the break inside [start_time, end_time].
C17_RowsValid ==
    \A r \in working_hours : clean(r)

\* C20: after any sequence of set_working_hours and save_working_hours
\* calls (and of the other writes of rows) a schedule has at most one row
\* per weekday.
C20_OneRowPerDay ==
    \A a \in working_hours, b \in working_hours :
        (a.schedule = b.schedule /\ a.day_of_week = b.day_of_week) => a = b

\* set_working_hours has found a row for the pair and has replaced its
\* values: the pair still has one row, with another end_time.
C20_Witness ==
    /\ op = "set_working_hours" /\ result /\ hours.found
    /\ \E r \in working_hours :
          /\ r.end_time # hours.end_time
          /\ rows_for(working_hours, r.schedule, r.day_of_week) = {r}
          /\ Cardinality(working_hours) = 2

\* The resolved row of a slot query is a working day that does not end
\* after it starts, and duration and interval are positive.
InvalidRowQuery ==
    /\ op = "get_available_slots" /\ pc \in {"loop", "done"}
    /\ hours.found /\ hours.is_working /\ hours.end_time <= hours.start_time
    /\ q.duration > 0 /\ q.interval > 0

\* C19: when the resolved row has is_working true and end_time <=
\* start_time, get_available_slots returns no slots for every positive
\* duration and interval: the loop body never runs.
C19_InvalidRowNoSlots ==
    InvalidRowQuery =>
        /\ slots = <<>>
        /\ pc = "loop" =>
              ~loop_guard(current, q.duration, combine(q.date, hours.end_time))

\* A slot query on a row that ends before it starts has returned, with no
\* time-off in its way.
C19_Witness ==
    /\ InvalidRowQuery /\ pc = "done"
    /\ hours.end_time < hours.start_time
    /\ time_off = {}

(***************************************************************************)
(* Several staff members                                                   *)
(***************************************************************************)

MaxService == 2

ServiceIds == 1..MaxService

StaffMember(pk, order, stat, is_bookable, scheds, toff, staff_services) ==
    [pk |-> pk, order |-> order, status |-> stat, is_bookable |-> is_bookable,
     schedules |-> scheds, time_off |-> toff, staff_services |-> staff_services]

\* A row of the StaffService table of one staff member.
Assignment(service_id, is_active) ==
    [service_id |-> service_id, is_active |-> is_active]

\* StaffMember.Meta.ordering on order; the primary key stands for the names.
staff_before(a, b) ==
    \/ a.order < b.order
    \/ a.order = b.order /\ a.pk < b.pk

staff_ordering(S) ==
    CHOOSE f \in [1..Cardinality(S) -> S] :
        /\ \A i, j \in 1..Cardinality(S) : i # j => f[i] # f[j]
        /\ \A i, j \in 1..Cardinality(S) : i < j => staff_before(f[i], f[j])

\* A join that takes the assignments of every service.
matching_rows_any_service(m, service_id) ==
    {ss \in m.staff_services : ss.is_active}

\* The rows joined by filter(staff_services__service_id=service_id,
\* staff_services__is_active=True).
matching_rows(m, service_id) ==
    {ss \in m.staff_services : ss.service_id = service_id /\ ss.is_active}

\* The queryset as a sequence: with a service filter a staff member stands
\* in it once for every joined row.
RECURSIVE staff_qs(_, _)
staff_qs(seq, service_id) ==
    IF seq = <<>> THEN <<>>
    ELSE LET m == Head(seq)
             n == IF service_id # Null
                  THEN Cardinality(matching_rows(m, service_id)) ELSE 1
         IN  [i \in 1..n |-> m] \o staff_qs(Tail(seq), service_id)

filter_active_bookable(seq) ==
    SelectSeq(seq, LAMBDA m : m.status = "active" /\ m.is_bookable)

get_available_staff(mem, target_datetime, service_id) ==
    LET qs == staff_qs(filter_active_bookable(staff_ordering(mem)), service_id)
        passing == SelectSeq(qs, LAMBDA m :
                       is_staff_available_at(m.status, m.schedules, m.time_off,
                                             target_datetime))
    IN  [i \in 1..Len(passing) |-> passing[i].pk]

GetAvailableStaff(d, t, service_id) ==
    /\ Idle
    /\ op' = "get_available_staff"
    /\ q' = [NoQuery EXCEPT !.date = d, !.time = t, !.service_id = service_id]
    /\ available' = get_available_staff(members, combine(d, t), service_id)
    /\ result' = FALSE
    /\ pc' = "done"
    /\ hours' = NoRow /\ current' = Null /\ slots' = <<>>
    /\ UNCHANGED <<store, prev, client>>

NextStaff ==
    \/ \E d \in Dates, t \in Times, service_id \in ServiceIds \cup {Null} :
          GetAvailableStaff(d, t, service_id)
    \/ Finish

\* The assignments of a staff member: none, service 1 active or inactive,
\* services 1 and 2 active.
AssignmentSets ==
    {{}, {Assignment(1, TRUE)}, {Assignment(1, FALSE)},
     {Assignment(1, TRUE), Assignment(MaxService, TRUE)}}

\* Staff members that work every day from time 0 to MaxT, with or without
\* an approved full-day time-off on day 0.
MembersOf(pk, order) ==
    {StaffMember(pk, order, stat, is_bookable,
                 {StaffSchedule(1, 1, TRUE, TRUE, Null, Null,
                      EveryWeekday(StaffWorkingHours(TRUE, 0, MaxT, Null, Null)))},
                 toff, staff_services) :
        stat \in {"active", "inactive"}, is_bookable \in BOOLEAN,
        toff \in {{}, {FullDay(0, 0, "approved")}},
        staff_services \in AssignmentSets}

InitStaff ==
    /\ status = NoStaff /\ schedules = {} /\ time_off = {}
    /\ working_hours = {}
    /\ \E a \in MembersOf(1, 1), b \in MembersOf(2, 0) : members = {a, b}
    /\ NoQueryYet

SpecStaff == InitStaff /\ [][NextStaff]_vars

\* The staff members that the contract of get_available_staff names.
ExpectedStaff ==
    {m.pk : m \in
        {x \in members :
            /\ x.status = "active" /\ x.is_bookable
            /\ q.service_id # Null =>
                  \E ss \in x.staff_services :
                      ss.service_id = q.service_id /\ ss.is_active
            /\ is_staff_available_at(x.status, x.schedules, x.time_off,
                                     combine(q.date, q.time))}}

\* C15: get_available_staff returns exactly the staff members that are
\* active and bookable, that have an active assignment to the service when
\* a service id is given, and for which the point-in-time check is true at
\* the datetime; none of them is returned twice.
C15_AvailableStaff ==
    Answered("get_available_staff") =>
        /\ {available[i] : i \in 1..Len(available)} = ExpectedStaff
        /\ \A i, j \in 1..Len(available) : i # j => available[i] # available[j]

\* A query for a service returns one of two staff members; the other one
\* is active, bookable and available at the time, and its assignment to
\* the service is inactive.
C15_Witness ==
    /\ Answered("get_available_staff") /\ q.service_id # Null
    /\ Len(available) = 1
    /\ \E m \in members :
          /\ m.pk # available[1]
          /\ m.status = "active" /\ m.is_bookable
          /\ m.staff_services = {Assignment(q.service_id, FALSE)}
          /\ is_staff_available_at(m.status, m.schedules, m.time_off,
                                   combine(q.date, q.time))

(***************************************************************************)
(* Repeated queries                                                        *)
(***************************************************************************)

\* The caller keeps the list that get_available_slots returned and is free
\* to call again.
Remember ==
    /\ Answered("get_available_slots")
    /\ pc' = "idle"
    /\ prev' = [q |-> q, slots |-> slots]
    /\ UNCHANGED <<store, op, q, result, hours, current, slots, available,
                   client>>

NextQueries ==
    \/ Next
    \/ \E d \in Dates, t \in Times, service_id \in ServiceIds \cup {Null} :
          GetAvailableStaff(d, t, service_id)
    \/ Remember

\* One staff member with a default schedule that works on Monday from time
\* 0 to MaxT, with or without a break, with or without an approved
\* full-day time-off on day 1, next to two other staff members.
InitQueries ==
    /\ status = "active"
    /\ \E bs \in {Null, 1} :
          schedules = {StaffSchedule(1, 1, TRUE, TRUE, Null, Null,
                          EveryWeekday(StaffWorkingHours(TRUE, 0, MaxT, bs,
                              IF bs = Null THEN Null ELSE MaxT - 1)))}
    /\ time_off \in {{}, {FullDay(1, 1, "approved")}}
    /\ working_hours = {}
    /\ \E a \in MembersOf(1, 1), b \in MembersOf(2, 0) :
          /\ a.status = "active" /\ a.is_bookable /\ a.time_off = {}
          /\ a.staff_services = {Assignment(1, TRUE)}
          /\ b.status = "active" /\ b.is_bookable /\ b.time_off # {}
          /\ b.staff_services = {}
          /\ members = {a, b}
    /\ NoQueryYet

SpecQueries == InitQueries /\ [][NextQueries]_vars

\* C16: the availability queries leave every stored record unchanged, and
\* a call of get_available_slots with the arguments of the remembered call
\* returns the list that call returned.
C16_Pure ==
    /\ [][store' = store]_vars
    /\ []((Answered("get_available_slots") /\ prev.q = q) => slots = prev.slots)

\* The second of two calls with the same arguments has returned the same
\* list of slots, which is not empty.
C16_Witness ==
    /\ Answered("get_available_slots") /\ prev.q = q
    /\ slots # <<>> /\ slots = prev.slots

\* C23: delete_schedule called on the only schedule of the staff member
\* returns an error and leaves the schedules unchanged, and no
\* delete_schedule call leaves a staff member that had a schedule without
\* any.
C23_LastScheduleKept ==
    [][op' = "delete_schedule" =>
          /\ Cardinality(schedules) = 1 => (~result' /\ schedules' = schedules)
          /\ schedules # {} => schedules' # {}]_vars

\* delete_schedule has been refused on the only schedule, which is still
\* stored.
C23_Witness ==
    /\ op = "delete_schedule" /\ ~result
    /\ Cardinality(schedules) = 1

(***************************************************************************)
(* Schedules of a staff member created by create_staff_member, with the    *)
(* instances that the caller keeps                                         *)
(***************************************************************************)

\* The caller's object for a stored schedule: its primary key and the
\* is_default it had when the caller received it.
Instance(s) == [pk |-> s.pk, is_default |-> s.is_default]

\* create_schedule; the caller keeps the schedule that is returned.
CreateScheduleKept(name, is_default) ==
    /\ status # NoStaff
    /\ NextPk(schedules) <= MaxSchedules
    /\ LET s == StaffSchedule(NextPk(schedules), name, is_default, TRUE,
                              Null, Null, EveryWeekday(NoRow))
       IN  /\ schedules' = StaffSchedule_save(schedules, s)
           /\ held' = held \cup {Instance(s)}
    /\ op' = "create_schedule" /\ result' = TRUE /\ hours' = NoRow
    /\ UNCHANGED <<status, time_off, working_hours, members,
                   pc, q, current, slots, available, prev, saving, response>>

\* delete_schedule on an instance that the caller has kept since
\* create_schedule returned it.
DeleteScheduleHeld(h) ==
    /\ h \in held
    /\ \E row \in schedules :
          /\ row.pk = h.pk
          /\ LET out == delete_schedule(schedules,
                            [row EXCEPT !.is_default = h.is_default])
             IN  /\ schedules' = out.schedules
                 /\ held' = IF out.ok THEN held \ {h} ELSE held
                 /\ op' = "delete_schedule" /\ result' = out.ok
    /\ hours' = NoRow
    /\ UNCHANGED <<status, time_off, working_hours, members,
                   pc, q, current, slots, available, prev, saving, response>>

NextDefault ==
    \/ CreateStaffMember
    \/ \E name \in ScheduleNames \ {0}, is_default \in BOOLEAN :
          CreateScheduleKept(name, is_default)
    \/ \E h \in held : DeleteScheduleHeld(h)
    \/ \E schedule \in schedules : DeleteSchedule(schedule)

InitDefault ==
    /\ status = NoStaff
    /\ schedules = {}
    /\ time_off = {}
    /\ SingleStaff
    /\ NoQueryYet

SpecDefault == InitDefault /\ [][NextDefault]_vars

\* C24: for a staff member created through create_staff_member, after any
\* sequence of create_schedule and delete_schedule calls exactly one of the
\* schedules has is_default true.
C24_ExactlyOneDefault ==
    status # NoStaff => Cardinality({s \in schedules : s.is_default}) = 1

\* C27: is_available(staff, d, t) and is_staff_available_at(staff,
\* datetime(d, t)) return the same boolean for every stored set of
\* schedules, working hours and time-off records.
C27_ChecksAgree ==
    /\ Answered("is_available") =>
          result = is_staff_available_at(status, schedules, time_off,
                                         combine(q.date, q.time))
    /\ Answered("is_staff_available_at") =>
          result = is_available(status, schedules, time_off, q.date, q.time)

\* A partial-day time-off, whatever its status, whose dates hold d.
PartialDayCovering(d) ==
    \E to \in time_off : /\ ~to.is_full_day
                         /\ to.start_date <= d /\ d <= to.end_date

\* C28: for an active staff member, a duration and an interval of at least
\* one unit and no partial-day time-off covering the date, every start
\* time returned by get_available_slots lies in [start_time, end_time) and
\* is a time at which is_staff_available_at returns true.
C28_SlotsAvailable ==
    (/\ Answered("get_available_slots") /\ status = "active"
     /\ q.duration >= 1 /\ q.interval >= 1
     /\ ~PartialDayCovering(q.date))
    => \A i \in 1..Len(slots) :
          /\ hours.start_time <= slots[i] /\ slots[i] < hours.end_time
          /\ is_staff_available_at(status, schedules, time_off,
                                   combine(q.date, slots[i]))

\* Slots have been returned on both sides of a break.
C28_Witness ==
    /\ Answered("get_available_slots") /\ status = "active"
    /\ q.duration >= 1 /\ q.interval >= 1
    /\ hours.break_start # Null
    /\ \E i, j \in 1..Len(slots) :
          slots[i] < hours.break_start /\ slots[j] >= hours.break_end

\* C29: whenever save_working_hours returns an error, the stored
\* working-hours rows are those that were stored before the call.
C29_AllOrNothing ==
    [][(op' = "save_working_hours" /\ ~result') =>
          working_hours' = working_hours]_vars

(***************************************************************************)
(* The status of a time-off record                                         *)
(*                                                                         *)
(* The records carry their approval fields.  now is the reading of the     *)
(* clock at the call.                                                      *)
(***************************************************************************)

Stamps == {1, 2}
Employees == {Null, 1}

\* A time-off record with approved_by_id and approved_at.
Requested(to, by, at) ==
    [pk |-> to.pk, start_date |-> to.start_date, end_date |-> to.end_date,
     is_full_day |-> to.is_full_day, start_time |-> to.start_time,
     end_time |-> to.end_time, status |-> to.status,
     approved_by_id |-> by, approved_at |-> at]

\* time_off.save(): the row of the instance is written.
StaffTimeOff_save(toff, to) == {x \in toff : x.pk # to.pk} \cup {to}

ApproveTimeOff(to, approved_by_id, now) ==
    /\ to \in time_off
    /\ time_off' = StaffTimeOff_save(time_off,
           [to EXCEPT !.status = "approved",
                      !.approved_by_id = IF approved_by_id # Null
                                         THEN approved_by_id ELSE @,
                      !.approved_at = now])
    /\ Returned("approve_time_off", TRUE)
    /\ UNCHANGED <<status, schedules, working_hours, members>>

RejectTimeOff(to) ==
    /\ to \in time_off
    /\ time_off' = StaffTimeOff_save(time_off, [to EXCEPT !.status = "rejected"])
    /\ Returned("reject_time_off", TRUE)
    /\ UNCHANGED <<status, schedules, working_hours, members>>

CancelTimeOff(to) ==
    /\ to \in time_off
    /\ time_off' = StaffTimeOff_save(time_off, [to EXCEPT !.status = "cancelled"])
    /\ Returned("cancel_time_off", TRUE)
    /\ UNCHANGED <<status, schedules, working_hours, members>>

\* An endpoint has answered the request for the record pk.
Answers(o, pk, code) ==
    /\ op' = o /\ result' = (code = 200) /\ hours' = NoRow
    /\ response' = [pk |-> pk, code |-> code]
    /\ pc' = "done"
    /\ UNCHANGED <<q, current, slots, available, prev, held, saving>>

\* A guard that lets an approved record through.
not_pending_only_rejected(to) == to.status = "rejected"

\* if time_off.status != 'pending'
not_pending(to) == to.status # "pending"

\* The endpoint time_off_approve.  approved_by is no field of the model, so
\* save(update_fields=[..., 'approved_by', ...]) raises ValueError before
\* it writes anything.
TimeOffApprove(pk) ==
    /\ Idle
    /\ \E to \in time_off :
          /\ to.pk = pk
          /\ IF not_pending(to)
             THEN Answers("time_off_approve", pk, 400)
             ELSE Answers("time_off_approve", pk, 500)
    /\ UNCHANGED store

\* The endpoint time_off_reject.
TimeOffReject(pk) ==
    /\ Idle
    /\ \E to \in time_off :
          /\ to.pk = pk
          /\ IF not_pending(to)
             THEN /\ Answers("time_off_reject", pk, 400)
                  /\ time_off' = time_off
             ELSE /\ Answers("time_off_reject", pk, 200)
                  /\ time_off' = StaffTimeOff_save(time_off,
                                     [to EXCEPT !.status = "rejected"])
    /\ UNCHANGED <<status, schedules, working_hours, members>>

NextStatus ==
    \/ \E to \in time_off, approved_by_id \in Employees, now \in Stamps :
          ApproveTimeOff(to, approved_by_id, now)
    \/ \E to \in time_off : RejectTimeOff(to)
    \/ \E to \in time_off : CancelTimeOff(to)
    \/ \E to \in time_off : TimeOffApprove(to.pk)
    \/ \E to \in time_off : TimeOffReject(to.pk)
    \/ \E d \in Dates, t \in Times : IsAvailable(d, t)
    \/ \E d \in Dates : GetAvailableSlots(d, 1, 1)
    \/ SlotLoop
    \/ SlotReturn
    \/ Finish

\* An active staff member who works every day from time 0 to MaxT, with a
\* full-day request of any status and, with or without it, an approved
\* partial-day record; nobody has approved anything yet.
InitStatus ==
    /\ status = "active"
    /\ schedules = {StaffSchedule(1, 1, TRUE, TRUE, Null, Null,
                        EveryWeekday(StaffWorkingHours(TRUE, 0, MaxT, Null, Null)))}
    /\ \E sd \in Dates, ed \in Dates, stat \in TimeOffStatuses :
          /\ sd <= ed
          /\ time_off \in
               {{Requested(FullDay(sd, ed, stat), Null, Null)},
                {Requested(FullDay(sd, ed, stat), Null, Null),
                 Requested(StaffTimeOff(2, 0, MaxDate, FALSE, 1, 1, "approved"),
                           Null, Null)}}
    /\ SingleStaff
    /\ NoQueryYet

SpecStatus == InitStatus /\ [][NextStatus]_vars

\* C26: through the endpoints time_off_approve and time_off_reject the
\* status of a record changes only from pending; asked for a record that is
\* approved, rejected or cancelled the endpoint answers 400 and leaves the
\* record's status, approved_by_id and approved_at as they were.
C26_OnlyFromPending ==
    [][op' \in {"time_off_approve", "time_off_reject"} =>
          \A to \in time_off :
             (to.pk = response'.pk /\ to.status # "pending") =>
                 /\ response'.code = 400
                 /\ to \in time_off']_vars

\* An endpoint has answered 400 for a record that had been approved
\* earlier, and time_off_reject has answered 400 for it.
C26_Witness ==
    /\ op = "time_off_reject" /\ response.code = 400
    /\ \E to \in time_off :
          /\ to.pk = response.pk /\ to.status = "approved"
          /\ to.approved_at # Null

\* The while loop of get_available_slots from the datetime cur on.
RECURSIVE slots_from(_, _, _, _, _)
slots_from(h, cur, target_date, duration_minutes, slot_interval) ==
    IF ~loop_guard(cur, duration_minutes, combine(target_date, h.end_time))
    THEN <<>>
    ELSE (IF overlaps_break(h, cur, duration_minutes)
          THEN <<>>
          ELSE <<time_of(cur)>>)
         \o slots_from(h, cur + slot_interval, target_date,
                       duration_minutes, slot_interval)

\* get_available_slots as a function of the stored data, for a
\* slot_interval of at least one unit.
get_available_slots(scheds, toff, target_date, duration_minutes, slot_interval) ==
    LET h == get_staff_schedule_for_date(scheds, target_date)
    IN  IF ~h.found \/ ~h.is_working
        THEN <<>>
        ELSE IF full_day_time_off(toff, target_date)
        THEN <<>>
        ELSE slots_from(h, combine(target_date, h.start_time), target_date,
                        duration_minutes, slot_interval)

\* C25: a full-day record that approve_time_off has approved and that
\* covers the date makes is_available false at every time; once
\* reject_time_off or cancel_time_off has set the record to rejected or
\* cancelled, is_available and get_available_slots return what they return
\* on the stored data without the record.
C25_StatusDrivesAvailability ==
    \A to \in time_off :
        /\ (/\ Answered("is_available")
            /\ to.status = "approved" /\ to.is_full_day
            /\ to.start_date <= q.date /\ q.date <= to.end_date)
           => ~result
        /\ (Answered("is_available") /\ to.status \in {"rejected", "cancelled"})
           => result = is_available(status, schedules, time_off \ {to},
                                    q.date, q.time)
        /\ (/\ Answered("get_available_slots") /\ q.interval >= 1
            /\ to.status \in {"rejected", "cancelled"})
           => slots = get_available_slots(schedules, time_off \ {to}, q.date,
                                          q.duration, q.interval)

\* A full-day record covering the date was approved by approve_time_off and
\* rejected or cancelled afterwards, and is_available answers true.
C25_Witness ==
    /\ Answered("is_available") /\ result
    /\ \E to \in time_off :
          /\ to.is_full_day /\ to.approved_at # Null
          /\ to.start_date <= q.date /\ q.date <= to.end_date
          /\ to.status \in {"rejected", "cancelled"}

(***************************************************************************)
(* The endpoints api_staff_schedule and api_available                      *)
(***************************************************************************)

\* schedule is None.
NoSchedule ==
    StaffSchedule(Null, Null, FALSE, FALSE, Null, Null, [x \in Weekdays |-> NoRow])

\* member.schedules.filter(is_active=True).filter(Q(effective_from...),
\* Q(effective_until...)).order_by('-is_default').first(): the schedules
\* that can come first, the order among equal flags being the database's.
first_by_default(scheds, target_date) ==
    LET qs == {s \in scheds :
                  /\ s.is_active
                  /\ s.effective_from = Null \/ s.effective_from <= target_date
                  /\ s.effective_until = Null \/ s.effective_until >= target_date}
    IN  IF qs = {} THEN {NoSchedule}
        ELSE {s \in qs : s.is_default \/ \A x \in qs : ~x.is_default}

\* schedule.working_hours.filter(day_of_week=..., is_working=True).first()
working_row(schedule, day_of_week) ==
    LET h == schedule.working_hours[day_of_week]
    IN  IF h.found /\ h.is_working THEN h ELSE NoRow

\* slot_time.strftime('%H:%M') of a time in quarter hours.
strftime(t) == <<t \div 4, 15 * (t % 4)>>

\* The while loop of api_staff_schedule from the datetime cur on.
RECURSIVE api_slots_from(_, _, _, _, _)
api_slots_from(h, cur, target_date, duration, interval) ==
    IF ~(cur + duration <= combine(target_date, h.end_time))
    THEN <<>>
    ELSE (IF /\ h.break_start # Null /\ h.break_end # Null
             /\ ~(\/ time_of(cur + duration) <= h.break_start
                  \/ time_of(cur) >= h.break_end)
          THEN <<>>
          ELSE <<strftime(time_of(cur))>>)
         \o api_slots_from(h, cur + interval, target_date, duration, interval)

\* The endpoint api_staff_schedule for an interval of at least one unit;
\* with an interval of 0 and a window that holds the duration the loop
\* does not end.
ApiStaffSchedule(d, duration, interval) ==
    /\ Idle
    /\ interval >= 1
    /\ op' = "api_staff_schedule"
    /\ q' = [NoQuery EXCEPT !.date = d, !.duration = duration,
                            !.interval = interval]
    /\ \E schedule \in first_by_default(schedules, d) :
          LET h == IF schedule = NoSchedule THEN NoRow
                   ELSE working_row(schedule, weekday(d))
          IN  /\ hours' = h
              /\ slots' = IF h.found
                          THEN api_slots_from(h, combine(d, h.start_time), d,
                                              duration, interval)
                          ELSE <<>>
    /\ result' = FALSE
    /\ pc' = "done"
    /\ current' = Null /\ available' = <<>>
    /\ UNCHANGED <<store, prev, client>>

NextApiSchedule ==
    \/ \E d \in Dates, duration \in Durations, interval \in Intervals :
          ApiStaffSchedule(d, duration, interval)
    \/ Finish

SpecApiSchedule == InitTimeOff /\ [][NextApiSchedule]_vars

\* C21: api_staff_schedule returns an empty slot list for every date that
\* a full-day time-off record of status pending or approved covers.
C21_FullDayNoSlots ==
    (Answered("api_staff_schedule")
     /\ FullDayCovering({"pending", "approved"}, q.date)) => slots = <<>>

\* member.time_off.filter(status__in=['pending', 'approved'],
\* start_date__lte=target_date, end_date__gte=target_date).exists()
has_time_off(toff, target_date) ==
    \E to \in toff : /\ to.status \in {"pending", "approved"}
                     /\ to.start_date <= target_date
                     /\ to.end_date >= target_date

\* The body of the loop of api_available for a member whose schedule query
\* returned schedule: true when the member is appended.
api_appends(m, schedule, target_date, target_time) ==
    IF has_time_off(m.time_off, target_date) THEN FALSE
    ELSE IF schedule = NoSchedule THEN FALSE
    ELSE LET h == working_row(schedule, weekday(target_date))
         IN  IF ~h.found THEN FALSE
             ELSE IF ~(h.start_time <= target_time /\ target_time <= h.end_time)
             THEN FALSE
             ELSE IF /\ h.break_start # Null /\ h.break_end # Null
                     /\ h.break_start <= target_time
                     /\ target_time <= h.break_end
             THEN FALSE
             ELSE TRUE

\* The endpoint api_available; first[m] is the schedule that the query of
\* member m returns.
ApiAvailable(d, t, service_id) ==
    /\ Idle
    /\ op' = "api_available"
    /\ q' = [NoQuery EXCEPT !.date = d, !.time = t, !.service_id = service_id]
    /\ \E first \in [members -> UNION {first_by_default(m.schedules, d) : m \in members}] :
          /\ \A m \in members : first[m] \in first_by_default(m.schedules, d)
          /\ LET qs == staff_qs(filter_active_bookable(staff_ordering(members)),
                                service_id)
                 passing == SelectSeq(qs, LAMBDA m : api_appends(m, first[m], d, t))
             IN  available' = [i \in 1..Len(passing) |-> passing[i].pk]
    /\ result' = FALSE
    /\ pc' = "done"
    /\ hours' = NoRow /\ current' = Null /\ slots' = <<>>
    /\ UNCHANGED <<store, prev, client>>

NextApiAvailable ==
    \/ \E d \in Dates, t \in Times, service_id \in ServiceIds \cup {Null} :
          ApiAvailable(d, t, service_id)
    \/ Finish

SpecApiAvailable == InitStaff /\ [][NextApiAvailable]_vars

\* C22: api_available lists exactly the staff members that are active and
\* bookable, that have an active assignment to the service when a service
\* id is given, and for which is_available is true at the date and time.
C22_SameAsIsAvailable ==
    Answered("api_available") =>
        {available[i] : i \in 1..Len(available)} =
            {m.pk : m \in
                {x \in members :
                    /\ x.status = "active" /\ x.is_bookable
                    /\ q.service_id # Null =>
                          \E ss \in x.staff_services :
                              ss.service_id = q.service_id /\ ss.is_active
                    /\ is_available(x.status, x.schedules, x.time_off,
                                    q.date, q.time)}}

(***************************************************************************)
(* Concurrent requests to schedule_create                                  *)
(*                                                                         *)
(* StaffSchedule.save runs two statements, the UPDATE that clears the      *)
(* flag of the other default schedules and the INSERT of its own row;      *)
(* nothing locks the rows of the staff member between them.  saving holds  *)
(* the saves that have begun, each with the statement it runs next.        *)
(***************************************************************************)

MaxRequests == 2

\* The request has bound its form and calls schedule.save().
ScheduleCreate(name, is_default) ==
    /\ status # NoStaff
    /\ Cardinality(saving) < MaxRequests
    /\ LET pk == NextPk(schedules \cup {r.schedule : r \in saving})
       IN  /\ pk <= MaxSchedules
           /\ saving' = saving \cup
                 {[schedule |-> StaffSchedule(pk, name, is_default, TRUE, Null,
                                              Null, EveryWeekday(NoRow)),
                   next |-> IF is_default THEN "update" ELSE "insert"]}
    /\ op' = "schedule_create"
    /\ UNCHANGED <<store, pc, q, result, hours, current, slots, available,
                   prev, held, response>>

\* filter(staff=self.staff, is_default=True).exclude(pk=self.pk)
\*     .update(is_default=False)
ClearOtherDefaults(r) ==
    /\ r \in saving /\ r.next = "update"
    /\ schedules' = {IF x.pk # r.schedule.pk
                     THEN [x EXCEPT !.is_default = FALSE] ELSE x : x \in schedules}
    /\ saving' = (saving \ {r}) \cup {[r EXCEPT !.next = "insert"]}
    /\ UNCHANGED <<status, time_off, working_hours, members, pc, op, q, result,
                   hours, current, slots, available, prev, held, response>>

\* super().save(): the row is written and the request answers.
InsertRow(r) ==
    /\ r \in saving /\ r.next = "insert"
    /\ schedules' = {x \in schedules : x.pk # r.schedule.pk} \cup {r.schedule}
    /\ saving' = saving \ {r}
    /\ UNCHANGED <<status, time_off, working_hours, members, pc, op, q, result,
                   hours, current, slots, available, prev, held, response>>

NextConcurrent ==
    \/ \E name \in ScheduleNames, is_default \in BOOLEAN :
          ScheduleCreate(name, is_default)
    \/ \E r \in saving : ClearOtherDefaults(r)
    \/ \E r \in saving : InsertRow(r)

\* A staff member with the default schedule of create_staff_member.
InitConcurrent ==
    /\ status = "active"
    /\ schedules = {StaffSchedule(1, 0, TRUE, TRUE, Null, Null, DefaultRows)}
    /\ time_off = {}
    /\ SingleStaff
    /\ NoQueryYet

SpecConcurrent == InitConcurrent /\ [][NextConcurrent]_vars

\* C30: once the concurrent saves of schedules with is_default true have
\* written their rows, at most one schedule of the staff member has
\* is_default true.
C30_AtMostOneDefault ==
    saving = {} => Cardinality({s \in schedules : s.is_default}) <= 1

====
